---- MODULE Spec2Model ----
(***************************************************************************)
(* Stock Health Monitor, dashboard page of streamlit_app.py.               *)
(*                                                                         *)
(* One run of the script renders the dashboard from the latest snapshot of *)
(* stock_health_metrics: load, risk calculation, status classification,    *)
(* heatmap (risk matrix), alerts and reorder list.                         *)
(*                                                                         *)
(* Numbers.  CLOSING_STOCK and SUGGESTED_REORDER_QTY are integers.         *)
(* AVG_DAILY_USAGE is held in thousandths of a unit (5 is 0.005, 10 is     *)
(* 0.01, 1000 is 1.0).  Every other float of the program (the horizon, the *)
(* heatmap cell) is a record [kind, num, den]: the rational num/den, or    *)
(* the IEEE values inf and NaN that pandas produces on a zero divisor.     *)
(* Binary rounding error of doubles is not modelled: the quotient is the   *)
(* exact rational, and round(1) is numpy's multiply by ten, round half to  *)
(* even, divide by ten.                                                    *)
(***************************************************************************)
EXTENDS Integers, Sequences, FiniteSets, TLC

VARIABLES
    pc,              \* position of the script run
    table,           \* rows of stock_health_metrics at the latest date
    df,              \* the data frame of the run
    heatmap_data,    \* pivot table ITEM x LOCATION of mean horizons
    styled_heatmap,  \* style string of each heatmap cell
    alerts_df,       \* the filtered and sorted alert frame
    styled_alerts,   \* the alert table as shown (display_cols)
    top_critical,    \* the head(3) of the CRITICAL alerts
    top_shown,       \* the top priority messages as shown
    alert_state,     \* "none", "table" or "all_healthy"
    reorder_df,      \* the filtered and sorted reorder frame
    reorder_metrics, \* the three st.metric values, or NoMetrics
    reorder_state,   \* "none", "list" or "no_reorders"
    ui_error,        \* "none", "no_data" (st.error) or "exception"
    cache,           \* the entry of st.cache_data for load_data
    now,             \* the clock of the cache, in seconds
    query_log,       \* the queries the backing store has received
    renders          \* number of script runs started

vars == <<pc, table, df, heatmap_data, styled_heatmap, alerts_df,
          styled_alerts, top_critical, top_shown, alert_state, reorder_df,
          reorder_metrics, reorder_state, ui_error, cache, now, query_log,
          renders>>

----------------------------------------------------------------------------
(* Bounds of the explored snapshots.                                       *)

MaxRows == 4          \* rows of a snapshot, alert oriented specification
MaxRowStock == 101    \* closing stock of the one-row specification
MaxMatrixRows == 2    \* rows of a snapshot, risk matrix specification
MaxReorderRows == 3   \* rows of a snapshot, reorder specification
MaxQty == 2           \* suggested reorder quantity
MaxRenders == 3       \* script runs of the memoization specification
MaxTime == 900        \* last second of the clock

(* Seconds that pass between two script runs. *)
TickSeconds == {299, 301}

(* Names of locations and items, after the placeholders of the add form. *)
Locations == {"Hospital_Mumbai", "Hospital_Delhi"}
Items == {"Insulin_Vials", "Syringes"}

(* Usage rates in thousandths: 0, 0.005, 0.99, 1.0, 2.0 and 4.0. *)
UsageVals == {0, 5, 990, 1000, 2000, 4000}

----------------------------------------------------------------------------
(* Floats.                                                                 *)

Num(n, d) == [kind |-> "num", num |-> n, den |-> d]
Inf == [kind |-> "inf", num |-> 0, den |-> 1]
NaN == [kind |-> "nan", num |-> 0, den |-> 1]

(* x <= k for an integer k; false for NaN and for +inf. *)
LessEq(x, k) == x.kind = "num" /\ x.num <= k * x.den

(* pd.isna *)
isna(x) == x.kind = "nan"

(* Order of sort_values: ascending numbers, then +inf, NaN last. *)
SortsBefore(a, b) ==
    IF a.kind = "num" /\ b.kind = "num" THEN a.num * b.den <= b.num * a.den
    ELSE IF a.kind = "num" THEN TRUE
    ELSE IF a.kind = "inf" THEN b.kind # "num"
    ELSE b.kind = "nan"

(* Nearest integer to a/b (a >= 0, b > 0), ties to the even neighbour. *)
RoundHalfEven(a, b) ==
    LET q == a \div b
        r == a % b
    IN  IF 2 * r < b THEN q
        ELSE IF 2 * r > b THEN q + 1
        ELSE IF q % 2 = 0 THEN q ELSE q + 1

(* Series.round(1) *)
round1(x) ==
    IF x.kind = "num" THEN Num(RoundHalfEven(x.num * 10, x.den), 10) ELSE x

(* closing_stock / avg_daily_usage, usage in thousandths. *)
Divide(stock, usage) ==
    IF usage = 0 THEN (IF stock = 0 THEN NaN ELSE Inf)
    ELSE Num(stock * 1000, usage)

----------------------------------------------------------------------------
(* Risk calculator and status classifier.                                  *)

(* The replacement value 0.01, in thousandths. *)
EPS == 10

(* Variant: the usage floored at 0.01, max(usage, 0.01). *)
ReplaceZeroFloor(usage) == IF usage < EPS THEN EPS ELSE usage

(* Variant: no replacement at all. *)
ReplaceZeroNone(usage) == usage

(* Series.replace(0, 0.01): only an exact zero is replaced. *)
ReplaceZero(usage) == IF usage = 0 THEN EPS ELSE usage

(* (CLOSING_STOCK / AVG_DAILY_USAGE).round(1) on the replaced usage. *)
DaysUntilStockout(stock, usage) == round1(Divide(stock, usage))

(* Variant: the first threshold exclusive. *)
classify_stock_exclusive(row) ==
    IF ~LessEq(row.DAYS_UNTIL_STOCKOUT, 5)
    THEN (IF LessEq(row.DAYS_UNTIL_STOCKOUT, 10) THEN "HEALTHY"
          ELSE "OVERSTOCK")
    ELSE IF LessEq(row.DAYS_UNTIL_STOCKOUT, 2)
            /\ row.DAYS_UNTIL_STOCKOUT.num # 2 * row.DAYS_UNTIL_STOCKOUT.den
         THEN "CRITICAL"
    ELSE "WARNING"

classify_stock(row) ==
    IF LessEq(row.DAYS_UNTIL_STOCKOUT, 2) THEN "CRITICAL"
    ELSE IF LessEq(row.DAYS_UNTIL_STOCKOUT, 5) THEN "WARNING"
    ELSE IF LessEq(row.DAYS_UNTIL_STOCKOUT, 10) THEN "HEALTHY"
    ELSE "OVERSTOCK"

----------------------------------------------------------------------------
(* Frame helpers.                                                          *)

RECURSIVE SelectRows(_, _)
(* df[mask]: the rows whose position is in keep, in frame order. *)
SelectRows(s, keep) ==
    IF s = <<>> THEN <<>>
    ELSE LET rest == SelectRows(Tail(s), {i - 1 : i \in keep \ {1}})
         IN  IF 1 \in keep THEN <<Head(s)>> \o rest ELSE rest

RemoveAt(s, i) == [j \in 1..(Len(s) - 1) |-> IF j < i THEN s[j] ELSE s[j + 1]]

RECURSIVE sort_values(_)
(* DataFrame.sort_values('DAYS_UNTIL_STOCKOUT') with the default         *)
(* kind='quicksort', which is not a stable sort: every ascending         *)
(* arrangement of the rows is a possible result.                         *)
sort_values(s) ==
    IF s = <<>> THEN {<<>>}
    ELSE UNION { { <<s[i]>> \o t : t \in sort_values(RemoveAt(s, i)) } :
                 i \in { j \in DOMAIN s : \A k \in DOMAIN s :
                           SortsBefore(s[j].DAYS_UNTIL_STOCKOUT,
                                       s[k].DAYS_UNTIL_STOCKOUT) } }

(* DataFrame.head(n) *)
head(s, n) == IF Len(s) <= n THEN s ELSE SubSeq(s, 1, n)

RECURSIVE SumQty(_)
(* Series.sum() of SUGGESTED_REORDER_QTY *)
SumQty(s) ==
    IF s = <<>> THEN 0 ELSE Head(s).SUGGESTED_REORDER_QTY + SumQty(Tail(s))

----------------------------------------------------------------------------
(* Heatmap.                                                                *)

AddF(x, y) ==
    IF x.den = y.den THEN Num(x.num + y.num, x.den)
    ELSE Num(x.num * y.den + y.num * x.den, x.den * y.den)

RECURSIVE SumF(_)
SumF(s) == IF s = <<>> THEN Num(0, 1)
           ELSE IF Len(s) = 1 THEN Head(s) ELSE AddF(Head(s), SumF(Tail(s)))

(* Variant: aggfunc='sum' with the empty group filled with 0. *)
meanAsSum(vals) ==
    LET nums == SelectSeq(vals, LAMBDA v : v.kind = "num")
    IN  SumF(nums)

(* aggfunc='mean' over the values of one group: NaN values are skipped, *)
(* a group with no value is NaN.                                        *)
mean(vals) ==
    LET nums == SelectSeq(vals, LAMBDA v : v.kind = "num")
        infs == SelectSeq(vals, LAMBDA v : v.kind = "inf")
    IN  IF infs # <<>> THEN Inf
        ELSE IF nums = <<>> THEN NaN
        ELSE LET t == SumF(nums) IN Num(t.num, t.den * Len(nums))

(* df.pivot_table(index='ITEM', columns='LOCATION',                       *)
(*                values='DAYS_UNTIL_STOCKOUT', aggfunc='mean')           *)
pivot_table(frame) ==
    LET items == {frame[i].ITEM : i \in DOMAIN frame}
        locs  == {frame[i].LOCATION : i \in DOMAIN frame}
        group(k) == SelectRows(frame, {i \in DOMAIN frame :
                        frame[i].ITEM = k[1] /\ frame[i].LOCATION = k[2]})
        vals(k) == [i \in DOMAIN group(k) |-> group(k)[i].DAYS_UNTIL_STOCKOUT]
    IN  [k \in items \X locs |-> mean(vals(k))]

(* Variant: the bands of the legend, "0-2", "3-5", "6-10", "11+", read *)
(* as val < 3, val < 6, val < 11.                                      *)
color_days_legend(val) ==
    IF isna(val) THEN ""
    ELSE IF val.kind = "num" /\ val.num < 3 * val.den
         THEN "background-color: #ff6b6b; color: white; font-weight: bold"
    ELSE IF val.kind = "num" /\ val.num < 6 * val.den
         THEN "background-color: #feca57; color: black; font-weight: bold"
    ELSE IF val.kind = "num" /\ val.num < 11 * val.den
         THEN "background-color: #48dbfb; color: black"
    ELSE "background-color: #1dd1a1; color: white"

color_days(val) ==
    IF isna(val) THEN ""
    ELSE IF LessEq(val, 2)
         THEN "background-color: #ff6b6b; color: white; font-weight: bold"
    ELSE IF LessEq(val, 5)
         THEN "background-color: #feca57; color: black; font-weight: bold"
    ELSE IF LessEq(val, 10)
         THEN "background-color: #48dbfb; color: black"
    ELSE "background-color: #1dd1a1; color: white"

----------------------------------------------------------------------------
(* Alerts and reorder list.                                                *)

(* Variant: only CRITICAL rows are alerts. *)
AlertStatusesCriticalOnly == {"CRITICAL"}

(* df['STOCK_STATUS'].isin(['CRITICAL', 'WARNING']) *)
AlertStatuses == {"CRITICAL", "WARNING"}

AlertRows(frame) ==
    SelectRows(frame, {i \in DOMAIN frame :
                         frame[i].STOCK_STATUS \in AlertStatuses})

highlight_status(row) ==
    IF row.STOCK_STATUS = "CRITICAL" THEN "background-color: #ffcdd2"
    ELSE IF row.STOCK_STATUS = "WARNING" THEN "background-color: #fff9c4"
    ELSE ""

(* alerts_df[display_cols].style.apply(highlight_status, axis=1) *)
DisplayRow(row) ==
    [idx |-> row.idx, LOCATION |-> row.LOCATION, ITEM |-> row.ITEM,
     CLOSING_STOCK |-> row.CLOSING_STOCK,
     AVG_DAILY_USAGE |-> row.AVG_DAILY_USAGE,
     DAYS_UNTIL_STOCKOUT |-> row.DAYS_UNTIL_STOCKOUT,
     STOCK_STATUS |-> row.STOCK_STATUS,
     SUGGESTED_REORDER_QTY |-> row.SUGGESTED_REORDER_QTY,
     style |-> highlight_status(row)]

(* f"{x:.0f}" of a usage in thousandths: the nearest integer, ties to even *)
Format0f(usage) == RoundHalfEven(usage, 1000)

(* Variant: no head(3). *)
TopCriticalAll(alerts) ==
    SelectRows(alerts, {i \in DOMAIN alerts :
                          alerts[i].STOCK_STATUS = "CRITICAL"})

(* alerts_df[alerts_df['STOCK_STATUS'] == 'CRITICAL'].head(3) *)
TopCritical(alerts) ==
    head(SelectRows(alerts, {i \in DOMAIN alerts :
                               alerts[i].STOCK_STATUS = "CRITICAL"}), 3)

(* The st.error message of one top priority row. *)
TopMessage(row) ==
    [ITEM |-> row.ITEM, LOCATION |-> row.LOCATION,
     DAYS_UNTIL_STOCKOUT |-> row.DAYS_UNTIL_STOCKOUT,
     CLOSING_STOCK |-> row.CLOSING_STOCK,
     AVG_DAILY_USAGE |-> Format0f(row.AVG_DAILY_USAGE),
     SUGGESTED_REORDER_QTY |-> row.SUGGESTED_REORDER_QTY]

(* df[df['SUGGESTED_REORDER_QTY'] > 0] *)
ReorderRows(frame) ==
    SelectRows(frame, {i \in DOMAIN frame :
                         frame[i].SUGGESTED_REORDER_QTY > 0})

NoMetrics == [reported |-> FALSE, items |-> 0, units |-> 0, critical |-> 0]

(* Variant: the total counts rows instead of summing quantities. *)
ReorderMetricsCounted(reorder) ==
    [reported |-> TRUE,
     items |-> Len(reorder),
     units |-> Len(reorder),
     critical |-> Len(SelectRows(reorder, {i \in DOMAIN reorder :
                        reorder[i].STOCK_STATUS = "CRITICAL"}))]

(* The three st.metric values under the reorder table. *)
ReorderMetrics(reorder) ==
    [reported |-> TRUE,
     items |-> Len(reorder),
     units |-> SumQty(reorder),
     critical |-> Len(SelectRows(reorder, {i \in DOMAIN reorder :
                        reorder[i].STOCK_STATUS = "CRITICAL"}))]

----------------------------------------------------------------------------
(* @st.cache_data(ttl=600): one entry for load_data, which takes no       *)
(* argument.  The entry holds the returned frame and expires ttl seconds  *)
(* after it was stored; a call is served from it while now < expires.     *)
(* Script runs of all sessions share the entry; a miss computes under the *)
(* lock of the cache, so the runs are taken one after the other.          *)

TTL == 600

NoEntry == [valid |-> FALSE, value |-> <<>>, expires |-> 0]

(* Variant: the entry is served one second longer. *)
FreshInclusive(entry, t) == entry.valid /\ t <= entry.expires

Fresh(entry, t) == entry.valid /\ t < entry.expires

(* Variant: the caller gets the cached object itself, as st.cache_resource *)
(* does, so a write to the frame of the run is a write to the entry.       *)
CachedAfterWriteShared(entry, frame) ==
    IF entry.valid THEN [entry EXCEPT !.value = frame] ELSE entry

(* The entry after the run has written to its frame: st.cache_data hands *)
(* out a copy of the cached frame, the entry is left as it was stored.   *)
CachedAfterWrite(entry, frame) == entry

----------------------------------------------------------------------------
(* Snapshots returned by the query of load_data.  The columns             *)
(* days_until_stockout and stock_status of the view are loaded too; the   *)
(* run overwrites both before it reads them.                              *)

Upstream == "UPSTREAM"

TableRows(locs, items, stocks, usages, qtys) ==
    { [LOCATION |-> l, ITEM |-> it, CLOSING_STOCK |-> c,
       AVG_DAILY_USAGE |-> u, SUGGESTED_REORDER_QTY |-> q,
       DAYS_UNTIL_STOCKOUT |-> NaN, STOCK_STATUS |-> Upstream] :
      l \in locs, it \in items, c \in stocks, u \in usages, q \in qtys }

Snapshots(rows, n) == UNION { [1..k -> rows] : k \in 0..n }

(* session.sql(query).to_pandas(): the rows under a RangeIndex. *)
to_pandas(rows) ==
    [i \in DOMAIN rows |->
       [idx |-> i, LOCATION |-> rows[i].LOCATION,
        ITEM |-> rows[i].ITEM,
        CLOSING_STOCK |-> rows[i].CLOSING_STOCK,
        AVG_DAILY_USAGE |-> rows[i].AVG_DAILY_USAGE,
        SUGGESTED_REORDER_QTY |-> rows[i].SUGGESTED_REORDER_QTY,
        DAYS_UNTIL_STOCKOUT |-> rows[i].DAYS_UNTIL_STOCKOUT,
        STOCK_STATUS |-> rows[i].STOCK_STATUS]]

InitWith(snapshots) ==
    /\ table \in snapshots
    /\ cache = NoEntry
    /\ now = 0
    /\ query_log = <<>>
    /\ renders = 1
    /\ pc = "start"
    /\ df = <<>>
    /\ heatmap_data = <<>>
    /\ styled_heatmap = <<>>
    /\ alerts_df = <<>>
    /\ styled_alerts = <<>>
    /\ top_critical = <<>>
    /\ top_shown = <<>>
    /\ alert_state = "none"
    /\ reorder_df = <<>>
    /\ reorder_metrics = NoMetrics
    /\ reorder_state = "none"
    /\ ui_error = "none"

(* Up to MaxRows rows of one item at one location. *)
Init ==
    InitWith(Snapshots(TableRows({"Hospital_Mumbai"}, {"Insulin_Vials"},
                                 0..3, {0, 1000}, {0}),
                       MaxRows))

(* One row, or none, over the wide range of stock and usage. *)
InitRow ==
    InitWith(Snapshots(TableRows({"Hospital_Mumbai"}, {"Insulin_Vials"},
                                 0..MaxRowStock, UsageVals, {0, 1}),
                       1))

(* Rows spread over items and locations. *)
InitMatrix ==
    InitWith(Snapshots(TableRows(Locations, Items,
                                 {0, 3, 5, 10, 11}, {1000}, {0}),
                       MaxMatrixRows))

(* The snapshots the view takes while the dashboard is rendered again. *)
CacheSnapshots ==
    Snapshots(TableRows({"Hospital_Mumbai"}, {"Insulin_Vials"},
                        {0, 1}, {0}, {0}), 1)

InitCache == InitWith(CacheSnapshots)

(* Rows with and without a suggested reorder quantity. *)
InitReorder ==
    InitWith(Snapshots(TableRows({"Hospital_Mumbai"}, {"Insulin_Vials"},
                                 {0, 1}, {0}, 0..MaxQty),
                       MaxReorderRows))

----------------------------------------------------------------------------
(* The run of the dashboard page, statement by statement.                  *)

(* df = load_data(): served from the cache while the entry is fresh, *)
(* else the query is run and its result stored for ttl seconds.      *)
LoadData ==
    /\ pc = "start"
    /\ IF Fresh(cache, now)
       THEN /\ df' = cache.value
            /\ UNCHANGED <<cache, query_log>>
       ELSE /\ df' = to_pandas(table)
            /\ cache' = [valid |-> TRUE, value |-> df',
                         expires |-> now + TTL]
            /\ query_log' = Append(query_log,
                                   [time |-> now, ok |-> TRUE,
                                    snapshot |-> df'])
    /\ pc' = "loaded"
    /\ UNCHANGED <<now, renders, table, heatmap_data, styled_heatmap, alerts_df,
                   styled_alerts, top_critical, top_shown, alert_state,
                   reorder_df, reorder_metrics, reorder_state, ui_error>>

(* df["AVG_DAILY_USAGE"] = df["AVG_DAILY_USAGE"].replace(0, 0.01)         *)
(* df["DAYS_UNTIL_STOCKOUT"] = (CLOSING_STOCK / AVG_DAILY_USAGE).round(1) *)
FixStockStatus ==
    /\ pc = "loaded"
    /\ df' = [i \in DOMAIN df |->
                LET usage == ReplaceZero(df[i].AVG_DAILY_USAGE)
                IN  [df[i] EXCEPT
                       !.AVG_DAILY_USAGE = usage,
                       !.DAYS_UNTIL_STOCKOUT =
                           DaysUntilStockout(df[i].CLOSING_STOCK, usage)]]
    /\ pc' = "calculated"
    /\ cache' = CachedAfterWrite(cache, df')
    /\ UNCHANGED <<now, query_log, renders, table, heatmap_data, styled_heatmap, alerts_df,
                   styled_alerts, top_critical, top_shown, alert_state,
                   reorder_df, reorder_metrics, reorder_state, ui_error>>

(* df["STOCK_STATUS"] = df.apply(classify_stock, axis=1).  On a frame     *)
(* without rows apply returns a frame, not a series, and the assignment   *)
(* of it to one column raises or not depending on the pandas release.     *)
ApplyClassify ==
    /\ pc = "calculated"
    /\ IF df = <<>>
       THEN /\ pc' \in {"classified", "raised"}
            /\ ui_error' = IF pc' = "raised" THEN "exception" ELSE ui_error
            /\ df' = df
       ELSE /\ df' = [i \in DOMAIN df |->
                        [df[i] EXCEPT !.STOCK_STATUS = classify_stock(df[i])]]
            /\ pc' = "classified"
            /\ ui_error' = ui_error
    /\ cache' = CachedAfterWrite(cache, df')
    /\ UNCHANGED <<now, query_log, renders, table, heatmap_data, styled_heatmap, alerts_df,
                   styled_alerts, top_critical, top_shown, alert_state,
                   reorder_df, reorder_metrics, reorder_state>>

(* Variant: the empty frame is not stopped. *)
EmptyCheckNoStop ==
    /\ pc = "classified"
    /\ pc' = "heatmap"
    /\ UNCHANGED <<cache, now, query_log, renders, table, df, heatmap_data, styled_heatmap, alerts_df,
                   styled_alerts, top_critical, top_shown, alert_state,
                   reorder_df, reorder_metrics, reorder_state, ui_error>>

(* if df.empty: st.error(...); st.stop() *)
EmptyCheck ==
    /\ pc = "classified"
    /\ IF df = <<>>
       THEN pc' = "stopped" /\ ui_error' = "no_data"
       ELSE pc' = "heatmap" /\ ui_error' = ui_error
    /\ UNCHANGED <<cache, now, query_log, renders, table, df, heatmap_data, styled_heatmap, alerts_df,
                   styled_alerts, top_critical, top_shown, alert_state,
                   reorder_df, reorder_metrics, reorder_state>>

(* heatmap_data = df.pivot_table(...); style.applymap(color_days) *)
Heatmap ==
    /\ pc = "heatmap"
    /\ heatmap_data' = pivot_table(df)
    /\ styled_heatmap' = [k \in DOMAIN heatmap_data' |->
                            color_days(heatmap_data'[k])]
    /\ pc' = "alerts"
    /\ UNCHANGED <<cache, now, query_log, renders, table, df, alerts_df, styled_alerts, top_critical,
                   top_shown, alert_state, reorder_df, reorder_metrics,
                   reorder_state, ui_error>>

(* The section "Critical & Warning Alerts". *)
Alerts ==
    /\ pc = "alerts"
    /\ \E sorted \in sort_values(AlertRows(df)) :
         /\ alerts_df' = sorted
         /\ IF Len(sorted) > 0
            THEN /\ styled_alerts' =
                        [i \in DOMAIN sorted |-> DisplayRow(sorted[i])]
                 /\ top_critical' = TopCritical(sorted)
                 /\ top_shown' = [i \in DOMAIN top_critical' |->
                                    TopMessage(top_critical'[i])]
                 /\ alert_state' = "table"
            ELSE /\ alert_state' = "all_healthy"
                 /\ UNCHANGED <<styled_alerts, top_critical, top_shown>>
    /\ pc' = "reorder"
    /\ UNCHANGED <<cache, now, query_log, renders, table, df, heatmap_data, styled_heatmap, reorder_df,
                   reorder_metrics, reorder_state, ui_error>>

(* The section "Reorder Priority List". *)
Reorder ==
    /\ pc = "reorder"
    /\ \E sorted \in sort_values(ReorderRows(df)) :
         /\ reorder_df' = sorted
         /\ IF Len(sorted) > 0
            THEN /\ reorder_metrics' = ReorderMetrics(sorted)
                 /\ reorder_state' = "list"
            ELSE /\ reorder_state' = "no_reorders"
                 /\ UNCHANGED reorder_metrics
    /\ pc' = "done"
    /\ UNCHANGED <<cache, now, query_log, renders, table, df, heatmap_data, styled_heatmap, alerts_df,
                   styled_alerts, top_critical, top_shown, alert_state,
                   ui_error>>

(* The query of load_data raises (store unreachable, view absent): the *)
(* exception ends the run and nothing is stored in the cache.          *)
LoadFails ==
    /\ pc = "start"
    /\ ~Fresh(cache, now)
    /\ query_log' = Append(query_log,
                           [time |-> now, ok |-> FALSE, snapshot |-> <<>>])
    /\ pc' = "raised"
    /\ ui_error' = "exception"
    /\ UNCHANGED <<cache, now, renders, table, df, heatmap_data,
                   styled_heatmap, alerts_df, styled_alerts, top_critical,
                   top_shown, alert_state, reorder_df, reorder_metrics,
                   reorder_state>>

(* The script runs again from the top (an interaction, another session). *)
Rerun ==
    /\ pc \in {"done", "stopped", "raised"}
    /\ renders < MaxRenders
    /\ renders' = renders + 1
    /\ pc' = "start"
    /\ df' = <<>>
    /\ heatmap_data' = <<>>
    /\ styled_heatmap' = <<>>
    /\ alerts_df' = <<>>
    /\ styled_alerts' = <<>>
    /\ top_critical' = <<>>
    /\ top_shown' = <<>>
    /\ alert_state' = "none"
    /\ reorder_df' = <<>>
    /\ reorder_metrics' = NoMetrics
    /\ reorder_state' = "none"
    /\ ui_error' = "none"
    /\ UNCHANGED <<cache, now, query_log, table>>

(* Time passes between two script runs. *)
Tick ==
    /\ pc = "start"
    /\ \E d \in TickSeconds : now + d <= MaxTime /\ now' = now + d
    /\ UNCHANGED <<cache, query_log, renders, pc, table, df, heatmap_data,
                   styled_heatmap, alerts_df, styled_alerts, top_critical,
                   top_shown, alert_state, reorder_df, reorder_metrics,
                   reorder_state, ui_error>>

(* The view is refreshed from daily_stock between two script runs (the *)
(* add, edit and delete pages write to daily_stock).                   *)
StoreChanges ==
    /\ pc = "start"
    /\ table' \in CacheSnapshots \ {table}
    /\ UNCHANGED <<cache, now, query_log, renders, pc, df, heatmap_data,
                   styled_heatmap, alerts_df, styled_alerts, top_critical,
                   top_shown, alert_state, reorder_df, reorder_metrics,
                   reorder_state, ui_error>>

Next ==
    \/ LoadData
    \/ FixStockStatus
    \/ ApplyClassify
    \/ EmptyCheck
    \/ Heatmap
    \/ Alerts
    \/ Reorder

Spec == Init /\ [][Next]_vars
SpecRow == InitRow /\ [][Next]_vars
SpecMatrix == InitMatrix /\ [][Next]_vars
SpecReorder == InitReorder /\ [][Next]_vars

(* The dashboard rendered again and again over a changing store. *)
NextCache ==
    \/ Next
    \/ LoadFails
    \/ Rerun
    \/ Tick
    \/ StoreChanges

SpecCache == InitCache /\ [][NextCache]_vars

----------------------------------------------------------------------------
(* Properties.                                                             *)

Abs(x) == IF x < 0 THEN -x ELSE x

(* t is the integer nearest to a/b, the even one of two equally near. *)
IsNearest(t, a, b) ==
    /\ 2 * Abs(t * b - a) <= b
    /\ (2 * Abs(t * b - a) = b => t % 2 = 0)

(* x is the one-decimal number nearest to stock / (divisor thousandths). *)
IsHorizon(x, stock, divisor) ==
    /\ x.kind = "num"
    /\ x.den = 10
    /\ IsNearest(x.num, stock * 10000, divisor)

Calculated == pc \notin {"start", "loaded"}
Classified == pc \notin {"start", "loaded", "calculated", "raised"}
HeatmapBuilt == pc \in {"alerts", "reorder", "done"}
AlertsBuilt == pc \in {"reorder", "done"}
Ended == pc \in {"done", "stopped", "raised"}

Max(a, b) == IF a >= b THEN a ELSE b

(* C1, as stated: every calculated row has days_until_stockout =          *)
(* round(closing_stock / max(avg_daily_usage, 0.01), 1), also for a usage *)
(* strictly between 0 and 0.01.                                           *)
C1_HorizonUsesFloor ==
    Calculated =>
      \A i \in DOMAIN df :
        IsHorizon(df[i].DAYS_UNTIL_STOCKOUT, table[i].CLOSING_STOCK,
                  Max(table[i].AVG_DAILY_USAGE, EPS))

(* C1, amended: every calculated row has days_until_stockout =            *)
(* round(closing_stock / d, 1) where d is 0.01 when the loaded usage is   *)
(* exactly 0 and the loaded usage itself otherwise (a usage strictly      *)
(* between 0 and 0.01 is not raised to 0.01); (4, 2) gives 2.0 and        *)
(* (100, 0) gives 10000.0.                                                *)
C1_HorizonReplacesZero ==
    Calculated =>
      \A i \in DOMAIN df :
        /\ IsHorizon(df[i].DAYS_UNTIL_STOCKOUT, table[i].CLOSING_STOCK,
                     IF table[i].AVG_DAILY_USAGE = 0 THEN EPS
                     ELSE table[i].AVG_DAILY_USAGE)
        /\ (table[i].CLOSING_STOCK = 4 /\ table[i].AVG_DAILY_USAGE = 2000
              => df[i].DAYS_UNTIL_STOCKOUT = Num(20, 10))
        /\ (table[i].CLOSING_STOCK = 100 /\ table[i].AVG_DAILY_USAGE = 0
              => df[i].DAYS_UNTIL_STOCKOUT = Num(100000, 10))

(* A row with a usage of 0.005 and stock on hand has been calculated. *)
C1_Witness ==
    /\ pc = "done"
    /\ \E i \in DOMAIN df :
         /\ table[i].AVG_DAILY_USAGE > 0
         /\ table[i].AVG_DAILY_USAGE < EPS
         /\ table[i].CLOSING_STOCK = 1
         /\ df[i].DAYS_UNTIL_STOCKOUT = Num(2000, 10)

(* C2: every classified row with horizon h is CRITICAL if h <= 2, else    *)
(* WARNING if h <= 5, else HEALTHY if h <= 10, else OVERSTOCK; 2.0, 5.0   *)
(* and 10.0 fall in the more urgent bucket and 10.1 is OVERSTOCK.         *)
C2_StatusThresholds ==
    Classified =>
      \A i \in DOMAIN df :
        LET h == df[i].DAYS_UNTIL_STOCKOUT
            tenths == h.num
            status == df[i].STOCK_STATUS
        IN  (h.kind = "num" /\ h.den = 10) =>
              /\ (tenths <= 20 => status = "CRITICAL")
              /\ (tenths > 20 /\ tenths <= 50 => status = "WARNING")
              /\ (tenths > 50 /\ tenths <= 100 => status = "HEALTHY")
              /\ (tenths > 100 => status = "OVERSTOCK")

(* A row with a horizon of exactly 2.0 has been classified CRITICAL. *)
C2_Witness ==
    /\ pc = "done"
    /\ \E i \in DOMAIN df :
         /\ df[i].DAYS_UNTIL_STOCKOUT = Num(20, 10)
         /\ df[i].STOCK_STATUS = "CRITICAL"

AlertIdx == {i \in DOMAIN df : df[i].STOCK_STATUS \in {"CRITICAL", "WARNING"}}

(* s holds exactly the rows of df labelled by ids, each once. *)
HoldsExactly(s, ids) ==
    /\ Len(s) = Cardinality(ids)
    /\ {s[j].idx : j \in DOMAIN s} = ids
    /\ \A j \in DOMAIN s : s[j] = df[s[j].idx]

Ascending(s) ==
    \A i, j \in DOMAIN s :
      i < j => SortsBefore(s[i].DAYS_UNTIL_STOCKOUT, s[j].DAYS_UNTIL_STOCKOUT)

SameHorizon(a, b) ==
    /\ SortsBefore(a.DAYS_UNTIL_STOCKOUT, b.DAYS_UNTIL_STOCKOUT)
    /\ SortsBefore(b.DAYS_UNTIL_STOCKOUT, a.DAYS_UNTIL_STOCKOUT)

(* C3, as stated: the alert list holds exactly the CRITICAL and WARNING   *)
(* rows, ascending by days_until_stockout, and rows of equal horizon keep *)
(* the order they have in the snapshot (stable sort).                     *)
C3_AlertsSortedStable ==
    AlertsBuilt =>
      /\ HoldsExactly(alerts_df, AlertIdx)
      /\ Ascending(alerts_df)
      /\ \A i, j \in DOMAIN alerts_df :
           (i < j /\ SameHorizon(alerts_df[i], alerts_df[j]))
             => alerts_df[i].idx < alerts_df[j].idx

(* C3, amended: the alert list holds exactly the CRITICAL and WARNING     *)
(* rows, each once, ascending by days_until_stockout; the relative order  *)
(* of rows of equal horizon is not determined.                            *)
C3_AlertsSorted ==
    AlertsBuilt =>
      /\ HoldsExactly(alerts_df, AlertIdx)
      /\ Ascending(alerts_df)

(* An alert list with CRITICAL and WARNING rows and two rows of equal *)
(* horizon, next to a row that is no alert.                           *)
C3_Witness ==
    /\ pc = "done"
    /\ Len(alerts_df) = 3
    /\ Len(df) = 4
    /\ alerts_df[1].STOCK_STATUS = "CRITICAL"
    /\ SameHorizon(alerts_df[1], alerts_df[2])
    /\ alerts_df[3].STOCK_STATUS = "WARNING"

CriticalPositions == {j \in DOMAIN alerts_df :
                        alerts_df[j].STOCK_STATUS = "CRITICAL"}

(* The position in the alert list of its n-th CRITICAL row. *)
NthCritical(n) ==
    CHOOSE j \in CriticalPositions :
      Cardinality({m \in CriticalPositions : m <= j}) = n

(* C4: the top-critical subset is the first min(3, k) CRITICAL rows of    *)
(* the ordered alert list, k the number of its CRITICAL rows: at most 3   *)
(* entries, only CRITICAL rows, in alert order, and empty, the run going  *)
(* on without error, when k = 0.                                          *)
C4_TopCriticalPrefix ==
    AlertsBuilt =>
      LET k == Cardinality(CriticalPositions)
      IN  /\ Len(top_critical) = (IF k < 3 THEN k ELSE 3)
          /\ Len(top_critical) <= 3
          /\ \A n \in DOMAIN top_critical :
               /\ top_critical[n] = alerts_df[NthCritical(n)]
               /\ top_critical[n].STOCK_STATUS = "CRITICAL"
          /\ (k = 0 => top_critical = <<>> /\ ui_error = "none")

(* Four CRITICAL alerts of which three are highlighted. *)
C4_Witness ==
    /\ pc = "done"
    /\ Cardinality(CriticalPositions) = 4
    /\ Len(top_critical) = 3

(* The snapshot rows that carry a suggested reorder quantity. *)
ReorderIdx == {i \in DOMAIN table : table[i].SUGGESTED_REORDER_QTY > 0}

RECURSIVE QtyOver(_)
(* The sum of suggested_reorder_qty over a set of snapshot rows. *)
QtyOver(ids) ==
    IF ids = {} THEN 0
    ELSE LET i == CHOOSE x \in ids : TRUE
         IN  table[i].SUGGESTED_REORDER_QTY + QtyOver(ids \ {i})

RollUpsAgree ==
    IF ReorderIdx # {}
    THEN /\ reorder_state = "list"
         /\ HoldsExactly(reorder_df, ReorderIdx)
         /\ reorder_metrics.reported
         /\ reorder_metrics.items = Cardinality(ReorderIdx)
         /\ reorder_metrics.units = QtyOver(ReorderIdx)
         /\ reorder_metrics.critical =
              Cardinality({i \in ReorderIdx : df[i].STOCK_STATUS = "CRITICAL"})
    ELSE /\ reorder_state = "no_reorders"
         /\ reorder_df = <<>>
         /\ reorder_metrics.items = 0
         /\ reorder_metrics.units = 0
         /\ reorder_metrics.critical = 0

CellIdx(it, l) ==
    {i \in DOMAIN df : df[i].ITEM = it /\ df[i].LOCATION = l}

RECURSIVE TenthsOver(_)
(* The sum, in tenths, of the horizons of a set of frame rows. *)
TenthsOver(ids) ==
    IF ids = {} THEN 0
    ELSE LET i == CHOOSE x \in ids : TRUE
         IN  df[i].DAYS_UNTIL_STOCKOUT.num + TenthsOver(ids \ {i})

(* C6: every cell (item, location) with contributing rows holds the       *)
(* arithmetic mean of their days_until_stockout (3.0 and 5.0 give 4.0),   *)
(* and every pair of a present item and a present location without a row  *)
(* holds the "no data" value, which is no number and so never zero.       *)
C6_CellsHoldMean ==
    HeatmapBuilt =>
      /\ DOMAIN heatmap_data =
           {df[i].ITEM : i \in DOMAIN df} \X {df[i].LOCATION : i \in DOMAIN df}
      /\ \A k \in DOMAIN heatmap_data :
           LET ids == CellIdx(k[1], k[2])
               cell == heatmap_data[k]
           IN  IF ids # {}
               THEN /\ cell.kind = "num"
                    /\ cell.den > 0
                    /\ cell.num * 10 * Cardinality(ids)
                         = TenthsOver(ids) * cell.den
                    /\ ({df[i].DAYS_UNTIL_STOCKOUT : i \in ids}
                          = {Num(30, 10), Num(50, 10)}
                        /\ Cardinality(ids) = 2
                          => cell.num = 4 * cell.den)
               ELSE /\ isna(cell)
                    /\ cell.kind # "num"
                    /\ cell # Num(0, 1)

(* Two rows of one item at one location with horizons 3.0 and 5.0, *)
(* averaged to 4.0 in the one cell of the matrix.                  *)
C6_Witness ==
    /\ pc = "done"
    /\ \E k \in DOMAIN heatmap_data :
         /\ Cardinality(CellIdx(k[1], k[2])) = 2
         /\ {df[i].DAYS_UNTIL_STOCKOUT : i \in CellIdx(k[1], k[2])}
              = {Num(30, 10), Num(50, 10)}
         /\ heatmap_data[k].num = 4 * heatmap_data[k].den

C9_ShownUsageIsLoaded ==
    AlertsBuilt =>
      /\ \A i \in DOMAIN styled_alerts :
           styled_alerts[i].AVG_DAILY_USAGE
             = table[styled_alerts[i].idx].AVG_DAILY_USAGE
      /\ \A i \in DOMAIN top_shown :
           top_shown[i].AVG_DAILY_USAGE
             = Format0f(table[top_critical[i].idx].AVG_DAILY_USAGE)

Band(status) ==
    IF status = "CRITICAL"
    THEN "background-color: #ff6b6b; color: white; font-weight: bold"
    ELSE IF status = "WARNING"
    THEN "background-color: #feca57; color: black; font-weight: bold"
    ELSE IF status = "HEALTHY"
    THEN "background-color: #48dbfb; color: black"
    ELSE "background-color: #1dd1a1; color: white"

(* C10: every numeric cell v of the risk matrix gets the first, second,   *)
(* third or fourth band exactly when classify_stock on a row with         *)
(* days_until_stockout = v gives CRITICAL, WARNING, HEALTHY or OVERSTOCK, *)
(* and a "no data" cell gets no band.                                     *)
C10_BandsFollowClassifier ==
    HeatmapBuilt =>
      \A k \in DOMAIN heatmap_data :
        LET v == heatmap_data[k]
        IN  IF isna(v) THEN styled_heatmap[k] = ""
            ELSE styled_heatmap[k]
                   = Band(classify_stock([DAYS_UNTIL_STOCKOUT |-> v]))

(* A matrix with a cell of exactly 10.0 in the third band and a cell *)
(* without data.                                                    *)
C10_Witness ==
    /\ pc = "done"
    /\ \E k \in DOMAIN heatmap_data :
         /\ heatmap_data[k].kind = "num"
         /\ heatmap_data[k].num = 10 * heatmap_data[k].den
         /\ styled_heatmap[k] = Band("HEALTHY")
    /\ \E k \in DOMAIN heatmap_data : styled_heatmap[k] = ""

(* The successful queries of the log. *)
Loads == {i \in DOMAIN query_log : query_log[i].ok}

(* A memoization window is open: a successful load less than 600 s ago. *)
WindowOpen == \E i \in Loads : now < query_log[i].time + TTL

(* The last successful query. *)
LastLoad == CHOOSE i \in Loads : \A j \in Loads : j <= i

(* No query follows a successful load within its window of 600 s. *)
OneQueryPerWindow ==
    \A i, j \in DOMAIN query_log :
      (i < j /\ query_log[i].ok) =>
        query_log[j].time >= query_log[i].time + TTL

(* A step of load_data inside an open window issues no query and returns *)
(* the snapshot as the last successful query loaded it; outside a window *)
(* it issues exactly one query, at the time of the call.  No other step  *)
(* of a run queries the store.                                           *)
RenderLoadsOnce ==
    IF pc = "start" /\ pc' # "start"
    THEN IF WindowOpen
         THEN /\ query_log' = query_log
              /\ pc' = "loaded"
              /\ df' = query_log[LastLoad].snapshot
         ELSE /\ Len(query_log') = Len(query_log) + 1
              /\ SubSeq(query_log', 1, Len(query_log)) = query_log
              /\ query_log'[Len(query_log')].time = now
    ELSE query_log' = query_log

(* C11: over any sequence of renders the store is queried at most once    *)
(* per window of 600 s from a successful load; a render inside the window *)
(* gets the loaded snapshot without a query, unchanged by the             *)
(* recomputation of usage, horizon and status of earlier renders, and the *)
(* first render after the window issues exactly one new query.            *)
C11_MemoizedLoad == []OneQueryPerWindow /\ [][RenderLoadsOnce]_vars

(* A later render, 598 s after the one load, served the snapshot as it  *)
(* was loaded (usage 0, no status yet) although the earlier render      *)
(* recomputed its frame and the store has changed since.                *)
C11_Witness ==
    /\ pc = "loaded"
    /\ renders = 3
    /\ now = 598
    /\ Len(query_log) = 1
    /\ query_log[1].ok
    /\ query_log[1].time = 0
    /\ Len(df) = 1
    /\ df = query_log[1].snapshot
    /\ df[1].AVG_DAILY_USAGE = 0
    /\ df[1].STOCK_STATUS = Upstream
    /\ df # to_pandas(table)

====
